---- MODULE Spec2Model ----
(***************************************************************************)
(* Model of rust/schema/undefinable/mod.rs: the AST nodes of "undefine"    *)
(* statements (enum Undefinable and its six payload structs), their        *)
(* constructors, their derived equality, their Spanned accessors and their *)
(* Display implementations.                                                *)
(*                                                                         *)
(* A text is a sequence of one-character strings, so that spacing and      *)
(* field order of the rendered text can be inspected.                      *)
(***************************************************************************)
EXTENDS Integers, Sequences, FiniteSets, TLC

VARIABLES stmts, args, out, ret

vars == <<stmts, args, out, ret>>

(***************************************************************************)
(* Bounds.                                                                 *)
(***************************************************************************)
\* largest end offset of a source span
MaxSpan == 1
\* number of to_string calls recorded per statement
MaxRenders == 2

\* the two places that hold a statement
Slots == {"a", "b"}

(***************************************************************************)
(* Value types supplied by other modules of the crate.                     *)
(***************************************************************************)
NoSpan == [some |-> FALSE]

Span == {[some |-> TRUE, begin_offset |-> 0, end_offset |-> e] : e \in 1..MaxSpan}

\* Option<Span>
OptionSpan == {NoSpan} \cup Span

Label == {[ident |-> "person"], [ident |-> "name"]}

Identifier == {[ident |-> "name"], [ident |-> "coords"]}

Annotation == {"card", "key"}

CapabilityKind == {"owns", "relates"}

CapabilityBase == {[kind |-> k, type_ |-> l] : k \in CapabilityKind, l \in Label}

Relates == {c \in CapabilityBase : c.kind = "relates"}

\* the characters of a name
NameText(n) ==
    CASE n = "person" -> <<"p", "e", "r", "s", "o", "n">>
      [] n = "name"   -> <<"n", "a", "m", "e">>
      [] n = "coords" -> <<"c", "o", "o", "r", "d", "s">>

Display_Label(self) == NameText(self.ident)

Display_Identifier(self) == NameText(self.ident)

Display_Annotation(self) ==
    CASE self = "card" -> <<"c", "a", "r", "d">>
      [] self = "key"  -> <<"k", "e", "y">>

Keyword_As == <<"a", "s">>

Keyword_From == <<"f", "r", "o", "m">>

Keyword_Fun == <<"f", "u", "n">>

Keyword_Struct == <<"s", "t", "r", "u", "c", "t">>

Keyword_Owns == <<"o", "w", "n", "s">>

Keyword_Relates == <<"r", "e", "l", "a", "t", "e", "s">>

Display_CapabilityKind(k) ==
    CASE k = "owns"    -> Keyword_Owns
      [] k = "relates" -> Keyword_Relates

Display_CapabilityBase(self) ==
    Display_CapabilityKind(self.kind) \o <<" ">> \o Display_Label(self.type_)

Display_Relates(self) ==
    Keyword_Relates \o <<" ">> \o Display_Label(self.type_)

(***************************************************************************)
(* write!(f, "...", args): the pieces of the format string are literal     *)
(* characters and "{}" placeholders, filled from args in order.            *)
(***************************************************************************)
RECURSIVE Format(_, _)
Format(pieces, fargs) ==
    IF pieces = <<>> THEN <<>>
    ELSE IF Head(pieces) = "{}"
         THEN Head(fargs) \o Format(Tail(pieces), Tail(fargs))
         ELSE <<Head(pieces)>> \o Format(Tail(pieces), fargs)

\* fmt::Result of a write! together with the text written to the formatter
Write(pieces, fargs) == [ok |-> TRUE, text |-> Format(pieces, fargs)]

(***************************************************************************)
(* Constructors.                                                           *)
(***************************************************************************)
AnnotationType_new(span, annotation_category, type_) ==
    [span |-> span, annotation_category |-> annotation_category, type_ |-> type_]

AnnotationCapability_new(span, annotation_category, type_, capability) ==
    [span |-> span, annotation_category |-> annotation_category,
     type_ |-> type_, capability |-> capability]

CapabilityType_new(span, capability, type_) ==
    [span |-> span, capability |-> capability, type_ |-> type_]

\* the two labels stored in each other's field
Specialise_new_Swapped(span, specialised, type_, relates) ==
    [span |-> span, specialised |-> type_, type_ |-> specialised,
     capability |-> relates]

Specialise_new(span, specialised, type_, relates) ==
    [span |-> span, specialised |-> specialised, type_ |-> type_,
     capability |-> relates]

Function_new(span, ident) == [span |-> span, ident |-> ident]

Struct_new(span, ident) == [span |-> span, ident |-> ident]

\* a value of enum Undefinable
Undefinable(variant, inner) == [variant |-> variant, inner |-> inner]

Variants ==
    {"Type", "AnnotationType", "AnnotationCapability", "CapabilityType",
     "Specialise", "Function", "Struct"}

(***************************************************************************)
(* Spanned: the accessor of the six payload structs.                       *)
(***************************************************************************)
Spanned_span(self) == self.span

(***************************************************************************)
(* Display.                                                                *)
(***************************************************************************)
Display_AnnotationType(self) ==
    Write(<<"@", "{}", " ", "{}", " ", "{}">>,
          <<Display_Annotation(self.annotation_category), Keyword_From,
            Display_Label(self.type_)>>)

\* a space slipped in after the "@"
Display_AnnotationCapability_SpaceAfterAt(self) ==
    Write(<<"@", " ", "{}", " ", "{}", " ", "{}", " ", "{}">>,
          <<Display_Annotation(self.annotation_category), Keyword_From,
            Display_Label(self.type_), Display_CapabilityBase(self.capability)>>)

Display_AnnotationCapability(self) ==
    Write(<<"@", "{}", " ", "{}", " ", "{}", " ", "{}">>,
          <<Display_Annotation(self.annotation_category), Keyword_From,
            Display_Label(self.type_), Display_CapabilityBase(self.capability)>>)

\* the type written before the capability
Display_CapabilityType_TypeFirst(self) ==
    Write(<<"{}", " ", "{}", " ", "{}">>,
          <<Display_Label(self.type_), Keyword_From,
            Display_CapabilityBase(self.capability)>>)

Display_CapabilityType(self) ==
    Write(<<"{}", " ", "{}", " ", "{}">>,
          <<Display_CapabilityBase(self.capability), Keyword_From,
            Display_Label(self.type_)>>)

\* specialised and type_ written in each other's place
Display_Specialise_Swapped(self) ==
    Write(<<"{}", " ", "{}", " ", "{}", " ", "{}", " ", "{}">>,
          <<Keyword_As, Display_Label(self.type_), Keyword_From,
            Display_Label(self.specialised), Display_Relates(self.capability)>>)

Display_Specialise(self) ==
    Write(<<"{}", " ", "{}", " ", "{}", " ", "{}", " ", "{}">>,
          <<Keyword_As, Display_Label(self.specialised), Keyword_From,
            Display_Label(self.type_), Display_Relates(self.capability)>>)

\* the span written after the identifier when there is one
Display_Function_WithSpan(self) ==
    Write(<<"{}", " ", "{}", "{}">>,
          <<Keyword_Fun, Display_Identifier(self.ident),
            IF self.span.some THEN <<"#">> ELSE <<>> >>)

Display_Function(self) ==
    Write(<<"{}", " ", "{}">>, <<Keyword_Fun, Display_Identifier(self.ident)>>)

\* the keyword of the neighbouring impl
Display_Struct_FunKeyword(self) ==
    Write(<<"{}", " ", "{}">>, <<Keyword_Fun, Display_Identifier(self.ident)>>)

Display_Struct(self) ==
    Write(<<"{}", " ", "{}">>, <<Keyword_Struct, Display_Identifier(self.ident)>>)

\* a match with a catch-all arm in place of the Struct arm
Display_Undefinable_Fallback(self) ==
    CASE self.variant = "Type" -> Write(<<"{}">>, <<Display_Label(self.inner)>>)
      [] self.variant = "AnnotationType" -> Display_AnnotationType(self.inner)
      [] self.variant = "AnnotationCapability" -> Display_AnnotationCapability(self.inner)
      [] self.variant = "CapabilityType" -> Display_CapabilityType(self.inner)
      [] self.variant = "Specialise" -> Display_Specialise(self.inner)
      [] self.variant = "Function" -> Display_Function(self.inner)
      [] OTHER -> [ok |-> FALSE, text |-> <<>>]

Display_Undefinable(self) ==
    CASE self.variant = "Type" -> Write(<<"{}">>, <<Display_Label(self.inner)>>)
      [] self.variant = "AnnotationType" -> Display_AnnotationType(self.inner)
      [] self.variant = "AnnotationCapability" -> Display_AnnotationCapability(self.inner)
      [] self.variant = "CapabilityType" -> Display_CapabilityType(self.inner)
      [] self.variant = "Specialise" -> Display_Specialise(self.inner)
      [] self.variant = "Function" -> Display_Function(self.inner)
      [] self.variant = "Struct" -> Display_Struct(self.inner)

(***************************************************************************)
(* #[derive(PartialEq)]: field by field, in declaration order.             *)
(***************************************************************************)
PartialEq_AnnotationType(x, y) ==
    /\ x.span = y.span
    /\ x.annotation_category = y.annotation_category
    /\ x.type_ = y.type_

PartialEq_AnnotationCapability(x, y) ==
    /\ x.span = y.span
    /\ x.annotation_category = y.annotation_category
    /\ x.type_ = y.type_
    /\ x.capability = y.capability

PartialEq_CapabilityType(x, y) ==
    /\ x.span = y.span
    /\ x.capability = y.capability
    /\ x.type_ = y.type_

PartialEq_Specialise(x, y) ==
    /\ x.span = y.span
    /\ x.specialised = y.specialised
    /\ x.type_ = y.type_
    /\ x.capability = y.capability

PartialEq_Function(x, y) == x.span = y.span /\ x.ident = y.ident

PartialEq_Struct(x, y) == x.span = y.span /\ x.ident = y.ident

PartialEq_Undefinable(x, y) ==
    /\ x.variant = y.variant
    /\ CASE x.variant = "Type" -> x.inner = y.inner
         [] x.variant = "AnnotationType" -> PartialEq_AnnotationType(x.inner, y.inner)
         [] x.variant = "AnnotationCapability" ->
                PartialEq_AnnotationCapability(x.inner, y.inner)
         [] x.variant = "CapabilityType" -> PartialEq_CapabilityType(x.inner, y.inner)
         [] x.variant = "Specialise" -> PartialEq_Specialise(x.inner, y.inner)
         [] x.variant = "Function" -> PartialEq_Function(x.inner, y.inner)
         [] x.variant = "Struct" -> PartialEq_Struct(x.inner, y.inner)

(***************************************************************************)
(* The parser of undefine statements, for the canonical one-line form:     *)
(*   person | @card from person | @card from person owns name |            *)
(*   owns name from person | as name from person relates name |            *)
(*   fun name | struct coords                                              *)
(* The text is cut at spaces and the statement shape is decided by the     *)
(* leading token; span is the location the parser gives the node.          *)
(***************************************************************************)
RECURSIVE Split(_)
Split(t) ==
    IF t = <<>> THEN << <<>> >>
    ELSE LET rest == Split(Tail(t))
         IN  IF Head(t) = " "
             THEN << <<>> >> \o rest
             ELSE << <<Head(t)>> \o Head(rest) >> \o Tail(rest)

IsLabel(tok) == \E l \in Label : Display_Label(l) = tok

LabelOf(tok) == CHOOSE l \in Label : Display_Label(l) = tok

IsIdentifier(tok) == \E x \in Identifier : Display_Identifier(x) = tok

IdentifierOf(tok) == CHOOSE x \in Identifier : Display_Identifier(x) = tok

IsAnnotation(tok) ==
    /\ tok # <<>>
    /\ Head(tok) = "@"
    /\ \E c \in Annotation : Display_Annotation(c) = Tail(tok)

AnnotationOf(tok) == CHOOSE c \in Annotation : Display_Annotation(c) = Tail(tok)

IsCapability(kw, tok) ==
    /\ \E k \in CapabilityKind : Display_CapabilityKind(k) = kw
    /\ IsLabel(tok)

CapabilityOf(kw, tok) ==
    [kind |-> CHOOSE k \in CapabilityKind : Display_CapabilityKind(k) = kw,
     type_ |-> LabelOf(tok)]

ParseError == [ok |-> FALSE]

Parsed(variant, inner) == [ok |-> TRUE, stmt |-> Undefinable(variant, inner)]

Parse(t, span) ==
    LET toks == Split(t)
        n == Len(toks)
    IN  CASE n = 1 /\ IsLabel(toks[1]) -> Parsed("Type", LabelOf(toks[1]))
          [] n = 3 /\ IsAnnotation(toks[1]) /\ toks[2] = Keyword_From /\ IsLabel(toks[3]) ->
                Parsed("AnnotationType",
                       AnnotationType_new(span, AnnotationOf(toks[1]), LabelOf(toks[3])))
          [] n = 5 /\ IsAnnotation(toks[1]) /\ toks[2] = Keyword_From /\ IsLabel(toks[3])
                   /\ IsCapability(toks[4], toks[5]) ->
                Parsed("AnnotationCapability",
                       AnnotationCapability_new(span, AnnotationOf(toks[1]),
                                                LabelOf(toks[3]),
                                                CapabilityOf(toks[4], toks[5])))
          [] n = 4 /\ IsCapability(toks[1], toks[2]) /\ toks[3] = Keyword_From
                   /\ IsLabel(toks[4]) ->
                Parsed("CapabilityType",
                       CapabilityType_new(span, CapabilityOf(toks[1], toks[2]),
                                          LabelOf(toks[4])))
          [] n = 6 /\ toks[1] = Keyword_As /\ IsLabel(toks[2]) /\ toks[3] = Keyword_From
                   /\ IsLabel(toks[4]) /\ toks[5] = Keyword_Relates /\ IsLabel(toks[6]) ->
                Parsed("Specialise",
                       Specialise_new(span, LabelOf(toks[2]), LabelOf(toks[4]),
                                      CapabilityOf(toks[5], toks[6])))
          [] n = 2 /\ toks[1] = Keyword_Fun /\ IsIdentifier(toks[2]) ->
                Parsed("Function", Function_new(span, IdentifierOf(toks[2])))
          [] n = 2 /\ toks[1] = Keyword_Struct /\ IsIdentifier(toks[2]) ->
                Parsed("Struct", Struct_new(span, IdentifierOf(toks[2])))
          [] OTHER -> ParseError

(***************************************************************************)
(* State.                                                                  *)
(*   stmts[i]  the statement held in slot i, or NoStmt                     *)
(*   args[i]   the arguments its constructor was called with               *)
(*   out[i]    the texts returned by the to_string calls on stmts[i]       *)
(*   ret       the value returned by the last span / eq / parse call       *)
(***************************************************************************)
NoStmt == [variant |-> "None"]

NoArgs == [fn |-> "None"]

NoRet == [op |-> "none"]

Init ==
    /\ stmts = [i \in Slots |-> NoStmt]
    /\ args = [i \in Slots |-> NoArgs]
    /\ out = [i \in Slots |-> <<>>]
    /\ ret = NoRet

\* Undefinable::Type(label)
NewType(i) ==
    /\ stmts[i] = NoStmt
    /\ \E label \in Label :
        /\ stmts' = [stmts EXCEPT ![i] = Undefinable("Type", label)]
        /\ args' = [args EXCEPT ![i] = [fn |-> "Type", label |-> label]]
    /\ UNCHANGED <<out, ret>>

\* Undefinable::AnnotationType(AnnotationType::new(..))
NewAnnotationType(i) ==
    /\ stmts[i] = NoStmt
    /\ \E span \in OptionSpan, annotation_category \in Annotation, type_ \in Label :
        /\ stmts' = [stmts EXCEPT ![i] =
              Undefinable("AnnotationType",
                          AnnotationType_new(span, annotation_category, type_))]
        /\ args' = [args EXCEPT ![i] =
              [fn |-> "AnnotationType", span |-> span,
               annotation_category |-> annotation_category, type_ |-> type_]]
    /\ UNCHANGED <<out, ret>>

\* Undefinable::AnnotationCapability(AnnotationCapability::new(..))
NewAnnotationCapability(i) ==
    /\ stmts[i] = NoStmt
    /\ \E span \in OptionSpan, annotation_category \in Annotation, type_ \in Label,
          capability \in CapabilityBase :
        /\ stmts' = [stmts EXCEPT ![i] =
              Undefinable("AnnotationCapability",
                          AnnotationCapability_new(span, annotation_category, type_,
                                                   capability))]
        /\ args' = [args EXCEPT ![i] =
              [fn |-> "AnnotationCapability", span |-> span,
               annotation_category |-> annotation_category, type_ |-> type_,
               capability |-> capability]]
    /\ UNCHANGED <<out, ret>>

\* Undefinable::CapabilityType(CapabilityType::new(..))
NewCapabilityType(i) ==
    /\ stmts[i] = NoStmt
    /\ \E span \in OptionSpan, capability \in CapabilityBase, type_ \in Label :
        /\ stmts' = [stmts EXCEPT ![i] =
              Undefinable("CapabilityType", CapabilityType_new(span, capability, type_))]
        /\ args' = [args EXCEPT ![i] =
              [fn |-> "CapabilityType", span |-> span, capability |-> capability,
               type_ |-> type_]]
    /\ UNCHANGED <<out, ret>>

\* Undefinable::Specialise(Specialise::new(..))
NewSpecialise(i) ==
    /\ stmts[i] = NoStmt
    /\ \E span \in OptionSpan, specialised \in Label, type_ \in Label,
          relates \in Relates :
        /\ stmts' = [stmts EXCEPT ![i] =
              Undefinable("Specialise",
                          Specialise_new(span, specialised, type_, relates))]
        /\ args' = [args EXCEPT ![i] =
              [fn |-> "Specialise", span |-> span, specialised |-> specialised,
               type_ |-> type_, relates |-> relates]]
    /\ UNCHANGED <<out, ret>>

\* Undefinable::Function(Function::new(..))
NewFunction(i) ==
    /\ stmts[i] = NoStmt
    /\ \E span \in OptionSpan, ident \in Identifier :
        /\ stmts' = [stmts EXCEPT ![i] =
              Undefinable("Function", Function_new(span, ident))]
        /\ args' = [args EXCEPT ![i] =
              [fn |-> "Function", span |-> span, ident |-> ident]]
    /\ UNCHANGED <<out, ret>>

\* Undefinable::Struct(Struct::new(..))
NewStruct(i) ==
    /\ stmts[i] = NoStmt
    /\ \E span \in OptionSpan, ident \in Identifier :
        /\ stmts' = [stmts EXCEPT ![i] =
              Undefinable("Struct", Struct_new(span, ident))]
        /\ args' = [args EXCEPT ![i] =
              [fn |-> "Struct", span |-> span, ident |-> ident]]
    /\ UNCHANGED <<out, ret>>

\* to_string into a buffer shared by all calls and never cleared
Render_SharedBuffer(i) ==
    /\ stmts[i] # NoStmt
    /\ Len(out[i]) < MaxRenders
    /\ LET r == Display_Undefinable(stmts[i])
           buffer == IF \E j \in Slots : out[j] # <<>>
                     THEN LET j == CHOOSE j \in Slots : out[j] # <<>>
                          IN  out[j][Len(out[j])].text
                     ELSE <<>>
       IN  out' = [out EXCEPT ![i] = Append(@, [ok |-> r.ok, text |-> buffer \o r.text])]
    /\ UNCHANGED <<stmts, args, ret>>

\* stmts[i].to_string(): Display into a fresh formatter
Render(i) ==
    /\ stmts[i] # NoStmt
    /\ Len(out[i]) < MaxRenders
    /\ out' = [out EXCEPT ![i] = Append(@, Display_Undefinable(stmts[i]))]
    /\ UNCHANGED <<stmts, args, ret>>

\* the payload's span(); the Type variant wraps a Label and has no payload struct
AskSpan(i) ==
    /\ stmts[i] # NoStmt
    /\ stmts[i].variant # "Type"
    /\ ret' = [op |-> "span", slot |-> i, value |-> Spanned_span(stmts[i].inner)]
    /\ UNCHANGED <<stmts, args, out>>

\* stmts[i] == stmts[j]
Compare(i, j) ==
    /\ stmts[i] # NoStmt
    /\ stmts[j] # NoStmt
    /\ ret' = [op |-> "eq", lhs |-> i, rhs |-> j,
               value |-> PartialEq_Undefinable(stmts[i], stmts[j])]
    /\ UNCHANGED <<stmts, args, out>>

\* the parser run on a text that to_string returned for stmts[i]
Reparse(i) ==
    /\ out[i] # <<>>
    /\ out[i][Len(out[i])].ok
    /\ LET text == out[i][Len(out[i])].text
           span == [some |-> TRUE, begin_offset |-> 0, end_offset |-> Len(text)]
       IN  ret' = [op |-> "parse", slot |-> i, value |-> Parse(text, span)]
    /\ UNCHANGED <<stmts, args, out>>

New(i) ==
    \/ NewType(i)
    \/ NewAnnotationType(i)
    \/ NewAnnotationCapability(i)
    \/ NewCapabilityType(i)
    \/ NewSpecialise(i)
    \/ NewFunction(i)
    \/ NewStruct(i)

\* statements are constructed and rendered
Next ==
    \/ \E i \in Slots : New(i)
    \/ \E i \in Slots : Render(i)

Spec == Init /\ [][Next]_vars

\* statements are constructed, asked for their span and compared
NextAccess ==
    \/ \E i \in Slots : New(i)
    \/ \E i \in Slots : AskSpan(i)
    \/ \E i, j \in Slots : Compare(i, j)

SpecAccess == Init /\ [][NextAccess]_vars

\* statements are constructed, rendered and parsed back
NextParse ==
    \/ \E i \in Slots : New(i)
    \/ \E i \in Slots : Render(i)
    \/ \E i \in Slots : Reparse(i)

SpecParse == Init /\ [][NextParse]_vars

TypeOK ==
    /\ \A i \in Slots : stmts[i] = NoStmt \/ stmts[i].variant \in Variants
    /\ \A i \in Slots : Len(out[i]) <= MaxRenders

(***************************************************************************)
(* Helpers of the properties.                                              *)
(***************************************************************************)
Rendered(i) == stmts[i] # NoStmt /\ out[i] # <<>>

\* the statement with its span field, if it has one, set to absent
StripSpan(s) ==
    IF s.variant = "Type" THEN s ELSE [s EXCEPT !.inner.span = NoSpan]

\* same variant and same fields, span aside
SameButSpan(x, y) == x.variant = y.variant /\ StripSpan(x) = StripSpan(y)

RECURSIVE Join(_)
Join(toks) ==
    IF Len(toks) = 1 THEN toks[1] ELSE toks[1] \o <<" ">> \o Join(Tail(toks))

\* the table of canonical texts, as token lists
Template(s) ==
    LET n == s.inner
    IN  CASE s.variant = "Type" -> <<Display_Label(n)>>
          [] s.variant = "AnnotationType" ->
                << <<"@">> \o Display_Annotation(n.annotation_category),
                   <<"f", "r", "o", "m">>, Display_Label(n.type_) >>
          [] s.variant = "AnnotationCapability" ->
                << <<"@">> \o Display_Annotation(n.annotation_category),
                   <<"f", "r", "o", "m">>, Display_Label(n.type_),
                   Display_CapabilityBase(n.capability) >>
          [] s.variant = "CapabilityType" ->
                << Display_CapabilityBase(n.capability), <<"f", "r", "o", "m">>,
                   Display_Label(n.type_) >>
          [] s.variant = "Specialise" ->
                << <<"a", "s">>, Display_Label(n.specialised), <<"f", "r", "o", "m">>,
                   Display_Label(n.type_), Display_Relates(n.capability) >>
          [] s.variant = "Function" -> << <<"f", "u", "n">>, Display_Identifier(n.ident) >>
          [] s.variant = "Struct" ->
                << <<"s", "t", "r", "u", "c", "t">>, Display_Identifier(n.ident) >>

\* C1: every text returned for a statement is the fixed template of its
\* variant over the renderings of its fields, in the table's field order,
\* with nothing added by the union's own Display.
C1_RenderIsTemplate ==
    \A i \in Slots : \A k \in 1..Len(out[i]) :
        out[i][k].text = Join(Template(stmts[i]))

\* a Specialise with different specialised and type_ labels rendered to
\* "as name from person relates name"
C1_Witness ==
    \E i \in Slots :
        /\ Rendered(i)
        /\ stmts[i].variant = "Specialise"
        /\ stmts[i].inner.specialised = [ident |-> "name"]
        /\ stmts[i].inner.type_ = [ident |-> "person"]
        /\ out[i][1].text =
              <<"a", "s", " ", "n", "a", "m", "e", " ", "f", "r", "o", "m", " ",
                "p", "e", "r", "s", "o", "n", " ",
                "r", "e", "l", "a", "t", "e", "s", " ", "n", "a", "m", "e">>

\* C2: an equality comparison of two statements of the same variant whose
\* fields other than span are identical returns true, whatever their spans.
C2_EqualityIgnoresSpan ==
    (ret.op = "eq" /\ SameButSpan(stmts[ret.lhs], stmts[ret.rhs]))
        => ret.value = TRUE

\* C4: two statements of the same variant that agree on every field except
\* span render to the same text.
C4_SpanNotRendered ==
    \A i, j \in Slots :
        (Rendered(i) /\ Rendered(j) /\ SameButSpan(stmts[i], stmts[j]))
            => \A k \in 1..Len(out[i]), m \in 1..Len(out[j]) :
                  out[i][k].text = out[j][m].text

\* two rendered statements alike but for the span, one present and one absent
C4_Witness ==
    \E i, j \in Slots :
        /\ Rendered(i) /\ Rendered(j)
        /\ stmts[i].variant = "AnnotationCapability"
        /\ SameButSpan(stmts[i], stmts[j])
        /\ stmts[i].inner.span = NoSpan
        /\ stmts[j].inner.span \in Span

NumSpaces(t) == Cardinality({k \in 1..Len(t) : t[k] = " "})

\* number of tokens of a variant's canonical text (a capability is two)
TokenCount(variant) ==
    CASE variant = "Type" -> 1
      [] variant = "AnnotationType" -> 3
      [] variant = "AnnotationCapability" -> 5
      [] variant = "CapabilityType" -> 4
      [] variant = "Specialise" -> 6
      [] variant = "Function" -> 2
      [] variant = "Struct" -> 2

WellSpaced(t, variant) ==
    /\ Len(t) > 0
    /\ t[1] # " "
    /\ t[Len(t)] # " "
    /\ \A k \in 1..Len(t) : t[k] # "\n"
    /\ \A k \in 1..(Len(t) - 1) : ~(t[k] = " " /\ t[k + 1] = " ")
    /\ \A k \in 1..Len(t) : t[k] = "@" => (k < Len(t) /\ t[k + 1] # " ")
    /\ NumSpaces(t) = TokenCount(variant) - 1

\* C5: a rendered text has exactly one space between adjacent tokens, no
\* leading or trailing space and no line break, and "@" is directly followed
\* by the category.
C5_SingleSpaced ==
    \A i \in Slots : \A k \in 1..Len(out[i]) :
        WellSpaced(out[i][k].text, stmts[i].variant)

\* an annotation on a capability, the longest "@" form, has been rendered
C5_Witness ==
    \E i \in Slots :
        /\ Rendered(i)
        /\ stmts[i].variant = "AnnotationCapability"
        /\ NumSpaces(out[i][1].text) = 4

\* C6: every statement is one of exactly seven variants and every to_string
\* call on it succeeds and returns a text.
C6_RenderTotal ==
    /\ Cardinality(Variants) = 7
    /\ \A i \in Slots :
        stmts[i] # NoStmt =>
            /\ stmts[i].variant \in Variants
            /\ \A k \in 1..Len(out[i]) : out[i][k].ok /\ Len(out[i][k].text) > 0

\* the last variant of the enum has been rendered
C6_Witness ==
    \E i \in Slots : Rendered(i) /\ stmts[i].variant = "Struct" /\ out[i][1].ok

FieldsOf(a) ==
    CASE a.fn = "AnnotationType" ->
            [span |-> a.span, annotation_category |-> a.annotation_category,
             type_ |-> a.type_]
      [] a.fn = "AnnotationCapability" ->
            [span |-> a.span, annotation_category |-> a.annotation_category,
             type_ |-> a.type_, capability |-> a.capability]
      [] a.fn = "CapabilityType" ->
            [span |-> a.span, capability |-> a.capability, type_ |-> a.type_]
      [] a.fn = "Specialise" ->
            [span |-> a.span, specialised |-> a.specialised, type_ |-> a.type_,
             capability |-> a.relates]
      [] a.fn = "Function" -> [span |-> a.span, ident |-> a.ident]
      [] a.fn = "Struct" -> [span |-> a.span, ident |-> a.ident]

\* C9: a constructed node of a span-carrying variant holds the constructor's
\* arguments in the declared roles, and its span accessor returns the span
\* given at construction.
C9_ConstructionFaithful ==
    /\ \A i \in Slots :
        (stmts[i] # NoStmt /\ stmts[i].variant # "Type") =>
            /\ stmts[i].variant = args[i].fn
            /\ stmts[i].inner = FieldsOf(args[i])
    /\ ret.op = "span" => ret.value = args[ret.slot].span

\* a Specialise built from different specialised and type_ labels and a
\* present span, asked for its span
C9_Witness ==
    /\ ret.op = "span"
    /\ args[ret.slot].fn = "Specialise"
    /\ args[ret.slot].specialised # args[ret.slot].type_
    /\ args[ret.slot].span \in Span
    /\ ret.value \in Span

\* C10: two statements that render to the same text are of the same variant
\* and agree on every field other than span.
C10_RenderInjective ==
    \A i, j \in Slots :
        (Rendered(i) /\ Rendered(j) /\ out[i][1].text = out[j][1].text)
            => SameButSpan(stmts[i], stmts[j])

\* two statements with different spans rendered to one and the same text
C10_Witness ==
    \E i, j \in Slots :
        /\ i # j
        /\ Rendered(i) /\ Rendered(j)
        /\ out[i][1].text = out[j][1].text
        /\ stmts[i].variant = "Function"
        /\ stmts[i].inner.span # stmts[j].inner.span
====
